---- MODULE Spec2Model ----
(***************************************************************************)
(* Verification scores of libs/score_utils.py: the CRPS / Brier-score      *)
(* kernels and the bootstrap routines, as a state machine of kernel calls. *)
(*                                                                         *)
(* A float64 is modelled by an exact rational [n |-> num, d |-> den] in    *)
(* lowest terms with d > 0; np.nan is [n |-> 0, d |-> 0] and is absorbing  *)
(* for every arithmetic operation.  Rounding and overflow of float64 are   *)
(* outside the model.  Arrays are sequences indexed from 1.                *)
(***************************************************************************)
EXTENDS Integers, Sequences, FiniteSets, TLC

VARIABLES
    args,       \* the caller-supplied arrays of the calls (a record)
    call,       \* the kernel being executed / last executed, with its scalar arguments
    ret,        \* the return value of the last completed call
    loc,        \* the local variables of a kernel whose loop is in progress
    np_state,   \* state of NumPy's process-wide generator (np.random.seed in Python)
    nb_state,   \* state of the generator the @nb.njit code draws from
    memo        \* observation: the arguments and the result of the first seeded call

vars == <<args, call, ret, loc, np_state, nb_state, memo>>

----------------------------------------------------------------------------
\* Bounds of the input families

NumDays == 1
NumX == 2
NumY == 2
MaxEN == 2
MaxVal == 1
NumBins == 3
MaxBoot == 2
RngMod == 4
MaxSamples == 21
MaxRare == 2
ParGrids == 2

----------------------------------------------------------------------------
\* float64 arithmetic

IAbs(i) == IF i < 0 THEN -i ELSE i

RECURSIVE GCD(_, _)
GCD(a, b) == IF b = 0 THEN a ELSE GCD(b, a % b)

np_nan == [n |-> 0, d |-> 0]

Rat(n, d) ==
    IF d = 0 THEN np_nan
    ELSE LET s == IF d < 0 THEN -1 ELSE 1
             g == GCD(IAbs(n), IAbs(d))
         IN  [n |-> (s * n) \div g, d |-> (s * d) \div g]

Flt(i) == [n |-> i, d |-> 1]

np_isnan(x) == x.d = 0

fadd(x, y) == IF np_isnan(x) \/ np_isnan(y) THEN np_nan
              ELSE Rat(x.n * y.d + y.n * x.d, x.d * y.d)

fsub(x, y) == IF np_isnan(x) \/ np_isnan(y) THEN np_nan
              ELSE Rat(x.n * y.d - y.n * x.d, x.d * y.d)

fmul(x, y) == IF np_isnan(x) \/ np_isnan(y) THEN np_nan
              ELSE Rat(x.n * y.n, x.d * y.d)

\* x / k for an integer k > 0
fdiv(x, k) == IF np_isnan(x) THEN np_nan ELSE Rat(x.n, x.d * k)

np_abs(x) == [n |-> IAbs(x.n), d |-> x.d]

\* comparisons are False when an operand is NaN
flt(x, y) == ~np_isnan(x) /\ ~np_isnan(y) /\ x.n * y.d < y.n * x.d
fle(x, y) == ~np_isnan(x) /\ ~np_isnan(y) /\ x.n * y.d <= y.n * x.d

RECURSIVE np_sum_from(_, _, _, _)
np_sum_from(a, size, k, acc) ==
    IF k > size THEN acc ELSE np_sum_from(a, size, k + 1, fadd(acc, a[k]))

np_sum(a) == np_sum_from(a, Len(a), 1, Flt(0))

\* mean of a non-empty 1-d array
np_mean(a) == fdiv(np_sum(a), Len(a))

----------------------------------------------------------------------------
\* CRPS_1d

\* the literature's normalisation, without the self-pairs
M_1d_no_self_pairs(EN) == 2 * EN * (EN - 1)

M_1d(EN) == 2 * EN * EN

RECURSIVE spread_1d(_, _, _, _, _, _, _)
spread_1d(y_ens, day, n, EN, en1, en2, spread_temp) ==
    IF en1 > EN THEN spread_temp
    ELSE IF en2 > EN THEN spread_1d(y_ens, day, n, EN, en1 + 1, 1, spread_temp)
    ELSE spread_1d(y_ens, day, n, EN, en1, en2 + 1,
             fadd(spread_temp, np_abs(fsub(y_ens[day][en1][n], y_ens[day][en2][n]))))

\* MAE[day, n] = np.mean(np.abs(y_true[day, n]-y_ens[day, :, n]))
MAE_1d(y_true, y_ens, EN, day, n) ==
    np_mean([en \in 1..EN |-> np_abs(fsub(y_true[day][n], y_ens[day][en][n]))])

\* SPREAD[day, n] = spread_temp/M
SPREAD_1d(y_ens, EN, day, n) ==
    fdiv(spread_1d(y_ens, day, n, EN, 1, 1, Flt(0)), M_1d(EN))

CRPS_1d(y_true, y_ens) ==
    LET N_day == Len(y_ens)
        EN == Len(y_ens[1])
        N_grids == Len(y_ens[1][1])
        MAE == [day \in 1..N_day |-> [n \in 1..N_grids |-> MAE_1d(y_true, y_ens, EN, day, n)]]
        SPREAD == [day \in 1..N_day |-> [n \in 1..N_grids |-> SPREAD_1d(y_ens, EN, day, n)]]
        CRPS == [day \in 1..N_day |-> [n \in 1..N_grids |->
                  fsub(MAE[day][n], SPREAD[day][n])]]
    IN  [CRPS |-> CRPS, MAE |-> MAE, SPREAD |-> SPREAD]

----------------------------------------------------------------------------
\* CRPS_2d

\* the member count in place of twice the pair count
M_2d_member_count(EN) == EN

M_2d(EN) == 2 * EN * EN

RECURSIVE spread_2d(_, _, _, _, _, _, _, _)
spread_2d(y_ens, day, i, j, EN, en1, en2, spread_temp) ==
    IF en1 > EN THEN spread_temp
    ELSE IF en2 > EN THEN spread_2d(y_ens, day, i, j, EN, en1 + 1, 1, spread_temp)
    ELSE spread_2d(y_ens, day, i, j, EN, en1, en2 + 1,
             fadd(spread_temp, np_abs(fsub(y_ens[day][en1][i][j], y_ens[day][en2][i][j]))))

\* land_mask is None (the default) or a boolean array of shape (Nx, Ny)
None == <<>>

\* with the mask indexed [j, i]
CRPS_2d_transposed_mask(y_true, y_ens, land_mask) ==
    LET r == CRPS_1d([day \in 1..Len(y_true) |-> [n \in 1..(Len(y_true[1]) * Len(y_true[1][1])) |->
                         y_true[day][((n - 1) \div Len(y_true[1][1])) + 1][((n - 1) % Len(y_true[1][1])) + 1]]],
                     [day \in 1..Len(y_ens) |-> [en \in 1..Len(y_ens[1]) |->
                         [n \in 1..(Len(y_true[1]) * Len(y_true[1][1])) |->
                            y_ens[day][en][((n - 1) \div Len(y_true[1][1])) + 1][((n - 1) % Len(y_true[1][1])) + 1]]]])
        Ny == Len(y_true[1][1])
        pick(a) == [day \in 1..Len(y_true) |-> [i \in 1..Len(y_true[1]) |-> [j \in 1..Ny |->
                       IF land_mask = None \/ land_mask[j][i] THEN a[day][(i - 1) * Ny + j] ELSE np_nan]]]
    IN  [CRPS |-> pick(r.CRPS), MAE |-> pick(r.MAE), SPREAD |-> pick(r.SPREAD)]

CRPS_2d(y_true, y_ens, land_mask) ==
    LET N_day == Len(y_ens)
        EN == Len(y_ens[1])
        Nx == Len(y_ens[1][1])
        Ny == Len(y_ens[1][1][1])
        M == M_2d(EN)
        land_mask_ == IF land_mask = None
                      THEN [i \in 1..Nx |-> [j \in 1..Ny |-> TRUE]]
                      ELSE land_mask
        MAE == [day \in 1..N_day |-> [i \in 1..Nx |-> [j \in 1..Ny |->
                  IF land_mask_[i][j]
                  THEN np_mean([en \in 1..EN |->
                           np_abs(fsub(y_true[day][i][j], y_ens[day][en][i][j]))])
                  ELSE np_nan]]]
        SPREAD == [day \in 1..N_day |-> [i \in 1..Nx |-> [j \in 1..Ny |->
                  IF land_mask_[i][j]
                  THEN fdiv(spread_2d(y_ens, day, i, j, EN, 1, 1, Flt(0)), M)
                  ELSE np_nan]]]
        CRPS == [day \in 1..N_day |-> [i \in 1..Nx |-> [j \in 1..Ny |->
                  fsub(MAE[day][i][j], SPREAD[day][i][j])]]]
    IN  [CRPS |-> CRPS, MAE |-> MAE, SPREAD |-> SPREAD]

----------------------------------------------------------------------------
\* CRPS_1d_nan

M_1d_nan(EN) == 2 * EN * EN

RECURSIVE spread_1d_nan(_, _, _, _, _, _, _)
spread_1d_nan(y_ens, day, n, EN, en1, en2, spread_temp) ==
    IF en1 > EN THEN spread_temp
    ELSE IF en2 > EN THEN spread_1d_nan(y_ens, day, n, EN, en1 + 1, 1, spread_temp)
    ELSE spread_1d_nan(y_ens, day, n, EN, en1, en2 + 1,
             fadd(spread_temp, np_abs(fsub(y_ens[day][en1][n], y_ens[day][en2][n]))))

\* without the test of the observation
CRPS_1d_nan_unchecked(y_true, y_ens) == CRPS_1d(y_true, y_ens)

CRPS_1d_nan(y_true, y_ens) ==
    LET N_day == Len(y_ens)
        EN == Len(y_ens[1])
        N_grids == Len(y_ens[1][1])
        M == M_1d_nan(EN)
        MAE == [day \in 1..N_day |-> [n \in 1..N_grids |->
                  IF np_isnan(y_true[day][n]) THEN np_nan
                  ELSE np_mean([en \in 1..EN |->
                           np_abs(fsub(y_true[day][n], y_ens[day][en][n]))])]]
        SPREAD == [day \in 1..N_day |-> [n \in 1..N_grids |->
                  IF np_isnan(y_true[day][n]) THEN np_nan
                  ELSE fdiv(spread_1d_nan(y_ens, day, n, EN, 1, 1, Flt(0)), M)]]
        CRPS == [day \in 1..N_day |-> [n \in 1..N_grids |->
                  fsub(MAE[day][n], SPREAD[day][n])]]
    IN  [CRPS |-> CRPS, MAE |-> MAE, SPREAD |-> SPREAD]

----------------------------------------------------------------------------
\* BS_binary_1d, BS_binary_1d_nan

\* BS[day, n] = (obs_vector[n] - np.sum(ens_vector[:, n])/EN)**2
BS_cell(obs_vector, ens_vector, n) ==
    LET EN == Len(ens_vector)
        e == fsub(obs_vector[n], fdiv(np_sum([en \in 1..EN |-> ens_vector[en][n]]), EN))
    IN  fmul(e, e)

BS_binary_1d(y_true, y_ens) ==
    LET N_days == Len(y_ens)
        N_grids == Len(y_ens[1][1])
    IN  [day \in 1..N_days |->
            LET ens_vector == y_ens[day]
                obs_vector == y_true[day]
            IN  [n \in 1..N_grids |-> BS_cell(obs_vector, ens_vector, n)]]

BS_binary_1d_nan(y_true, y_ens) ==
    LET N_days == Len(y_ens)
        EN == Len(y_ens[1])
        N_grids == Len(y_ens[1][1])
    IN  [day \in 1..N_days |->
            LET ens_vector == y_ens[day]
                obs_vector == y_true[day]
            IN  [n \in 1..N_grids |->
                    IF np_isnan(obs_vector[n]) THEN np_nan
                    ELSE LET e == fsub(obs_vector[n],
                                  fdiv(np_sum([en \in 1..EN |-> ens_vector[en][n]]), EN))
                         IN  fmul(e, e)]]

----------------------------------------------------------------------------
\* CRPS_1d_from_quantiles

\* np.searchsorted(a, v), side='left': binary search on the 0-based half-open
\* range [lo, hi); a NaN needle sorts after every non-NaN element
RECURSIVE searchsorted_nan(_, _)
searchsorted_nan(a, i) ==
    IF i = 0 THEN 0
    ELSE IF ~np_isnan(a[i]) THEN i
    ELSE searchsorted_nan(a, i - 1)

\* side='right': the insertion point after the equal elements
RECURSIVE searchsorted_bisect_right(_, _, _, _)
searchsorted_bisect_right(a, v, lo, hi) ==
    IF hi <= lo THEN lo
    ELSE LET mid == (lo + hi) \div 2 IN
         IF fle(a[mid + 1], v) THEN searchsorted_bisect_right(a, v, mid + 1, hi)
         ELSE searchsorted_bisect_right(a, v, lo, mid)

RECURSIVE searchsorted_bisect(_, _, _, _)
searchsorted_bisect(a, v, lo, hi) ==
    IF hi <= lo THEN lo
    ELSE LET mid == (lo + hi) \div 2 IN
         IF flt(a[mid + 1], v) THEN searchsorted_bisect(a, v, mid + 1, hi)
         ELSE searchsorted_bisect(a, v, lo, mid)

np_searchsorted(a, v) ==
    IF np_isnan(v) THEN searchsorted_nan(a, Len(a))
    ELSE searchsorted_bisect(a, v, 0, Len(a))

\* step = np.searchsorted(cdf, obs); if step > L: step = L
quantile_step(cdf, obs, L) ==
    LET step == np_searchsorted(cdf, obs) IN IF step > L THEN L ELSE step

\* H_func[:] = 0.0
H_func_clear(H_func) == [k \in 1..Len(H_func) |-> Flt(0)]

\* H_func[step:] = 1.0   (step is a 0-based index)
H_func_set(H_func, step) ==
    [k \in 1..Len(H_func) |-> IF k - 1 >= step THEN Flt(1) ELSE H_func[k]]

\* np.trapz(y, x=x)
RECURSIVE np_trapz_from(_, _, _, _)
np_trapz_from(y, x, k, acc) ==
    IF k >= Len(y) THEN acc
    ELSE np_trapz_from(y, x, k + 1,
             fadd(acc, fdiv(fmul(fsub(x[k + 1], x[k]), fadd(y[k + 1], y[k])), 2)))

np_trapz(y, x) == np_trapz_from(y, x, 1, Flt(0))

\* np.trapz((q_bins-H_func)**2, x=cdf)
quantile_integral(q_bins, H_func, cdf) ==
    np_trapz([k \in 1..Len(q_bins) |->
                 LET e == fsub(q_bins[k], H_func[k]) IN fmul(e, e)], cdf)

\* cdf = CDFs[:, n]   (n is 1-based here)
CDF_column(CDFs, n) == [k \in 1..Len(CDFs) |-> CDFs[k][n]]

CRPS_1d_from_quantiles(q_bins, CDFs, y_true) ==
    LET L == Len(q_bins) - 1
        H_func == [k \in 1..(L + 1) |-> Flt(0)]
        N_days == Len(y_true)
        N_grids == Len(y_true[1])
    IN  [day \in 1..N_days |-> [n \in 1..N_grids |->
            LET cdf == CDF_column(CDFs, n)
                obs == y_true[day][n]
                step == quantile_step(cdf, obs, L)
            IN  quantile_integral(q_bins, H_func_set(H_func_clear(H_func), step), cdf)]]

----------------------------------------------------------------------------
\* Random generators.  A generator is a state and a deterministic step; the
\* interpreter's np.random and the generator of the jitted code are two states.

rng_next(s) == (s + 3) % RngMod

\* np.random.seed(random_seed)
np_random_seed(random_seed) == random_seed % RngMod

\* np.random.randint(low, high): the new state and the value drawn
np_random_randint(state, low, high) ==
    LET s2 == rng_next(state) IN [state |-> s2, value |-> low + (s2 % (high - low))]

\* np.random.choice(L, size=L, replace=True): L draws of randint(0, L)
RECURSIVE np_random_choice_from(_, _, _, _)
np_random_choice_from(state, L, k, out) ==
    IF k >= L THEN [state |-> state, value |-> out]
    ELSE LET r == np_random_randint(state, 0, L)
         IN  np_random_choice_from(r.state, L, k + 1, Append(out, r.value))

np_random_choice(state, L) == np_random_choice_from(state, L, 0, <<>>)

----------------------------------------------------------------------------
\* score_bootstrap_1d

\* raw = data[..., i].ravel(); raw = raw[np.logical_not(np.isnan(raw))]   (i is 1-based)
RECURSIVE raw_valid_from(_, _, _, _)
raw_valid_from(data, i, r, out) ==
    IF r > Len(data) THEN out
    ELSE raw_valid_from(data, i, r + 1,
             IF np_isnan(data[r][i]) THEN out ELSE Append(out, data[r][i]))

raw_valid(data, i) == raw_valid_from(data, i, 1, <<>>)

\* np.mean inside jitted code is c / a.size under the default error model,
\* which raises ZeroDivisionError for an empty array
nb_mean_raises(a) == Len(a) = 0

\* raw[ind_bagging]   (the indices are 0-based)
take(raw, ind) == [k \in 1..Len(ind) |-> raw[ind[k] + 1]]

----------------------------------------------------------------------------
\* bootstrap_confidence_intervals, bootstrap_core

lower_quantile == [n |-> 1, d |-> 20]
upper_quantile == [n |-> 19, d |-> 20]

RECURSIVE sort_insert(_, _)
sort_insert(srt, x) ==
    IF Len(srt) = 0 THEN <<x>>
    ELSE IF fle(x, Head(srt)) THEN <<x>> \o srt
    ELSE <<Head(srt)>> \o sort_insert(Tail(srt), x)

RECURSIVE np_sort_from(_, _, _)
np_sort_from(a, k, srt) ==
    IF k > Len(a) THEN srt ELSE np_sort_from(a, k + 1, sort_insert(srt, a[k]))

np_sort(a) == np_sort_from(a, 1, <<>>)

\* method='lower': the order statistic below the position, not interpolated
np_quantile_lower(a, q) ==
    IF \E k \in 1..Len(a) : np_isnan(a[k]) THEN np_nan
    ELSE np_sort(a)[((q.n * (Len(a) - 1)) \div q.d) + 1]

\* np.quantile(a, q) of a non-empty 1-d array, linear interpolation between
\* the order statistics around the position q*(N-1); NaN if a holds a NaN
np_quantile(a, q) ==
    IF \E k \in 1..Len(a) : np_isnan(a[k]) THEN np_nan
    ELSE LET srt == np_sort(a)
             num == q.n * (Len(a) - 1)
             lo == num \div q.d
             rem == num % q.d
         IN  IF rem = 0 THEN srt[lo + 1]
             ELSE fadd(srt[lo + 1],
                       fdiv(fmul(Flt(rem), fsub(srt[lo + 2], srt[lo + 1])), q.d))

\* column of a 2-d array, for the reductions along axis 0   (t is 1-based)
axis0(a, t) == [r \in 1..Len(a) |-> a[r][t]]

\* the three reductions of bootstrap_confidence_intervals
confidence_intervals(bootstrap_data, lower_q, upper_q, n_lead_times) ==
    [mean_score |-> [t \in 1..n_lead_times |-> np_mean(axis0(bootstrap_data, t))],
     ci_lower |-> [t \in 1..n_lead_times |-> np_quantile(axis0(bootstrap_data, t), lower_q)],
     ci_upper |-> [t \in 1..n_lead_times |-> np_quantile(axis0(bootstrap_data, t), upper_q)]]

----------------------------------------------------------------------------
\* Input families.  An array of a family holds a background value everywhere
\* except in one cell, which holds any value of the family.

F == {np_nan} \cup {Flt(v) : v \in 0..MaxVal}

NumGrids == NumX * NumY

Cells == (1..NumDays) \X (1..NumGrids)

Seeds == {0, 1}

q_bins_uniform == [k \in 1..NumBins |-> Rat(k - 1, NumBins - 1)]

cdf_background == [k \in 1..NumBins |-> Flt(IF k - 1 < MaxVal THEN k - 1 ELSE MaxVal)]

y_true_family(bg, p, obs) ==
    [day \in 1..NumDays |-> [n \in 1..NumGrids |-> IF <<day, n>> = p THEN obs ELSE bg]]

y_ens_family(EN, p, ens) ==
    [day \in 1..NumDays |-> [en \in 1..EN |-> [n \in 1..NumGrids |->
        IF <<day, n>> = p THEN ens[en] ELSE Flt(2 * (en - 1))]]]

CDFs_family(g, cdf) ==
    [k \in 1..NumBins |-> [n \in 1..NumGrids |-> IF n = g THEN cdf[k] ELSE cdf_background[k]]]

data_family(bg, p, v) ==
    [r \in 1..(NumDays + 1) |-> [k \in 1..NumX |-> IF <<r, k>> = p THEN v ELSE bg]]

\* land masks: None, all-True, all-False, and False at one corner of the grid
Masks ==
    {None, [i \in 1..NumX |-> [j \in 1..NumY |-> FALSE]]} \cup
    {[i \in 1..NumX |-> [j \in 1..NumY |-> <<i, j>> # q]] :
        q \in {<<0, 0>>, <<1, 1>>, <<1, NumY>>, <<NumX, 1>>}}

\* y.reshape(time, gx, gy) and y.reshape(time, member, gx, gy) of the caller
reshape_true(y_true) ==
    [day \in 1..Len(y_true) |-> [i \in 1..NumX |-> [j \in 1..NumY |->
        y_true[day][(i - 1) * NumY + j]]]]

reshape_ens(y_ens) ==
    [day \in 1..Len(y_ens) |-> [en \in 1..Len(y_ens[day]) |-> [i \in 1..NumX |->
        [j \in 1..NumY |-> y_ens[day][en][(i - 1) * NumY + j]]]]]

Idle == [pc |-> "idle"]

InitControl ==
    /\ call = [name |-> "none", arg |-> None, status |-> "returned"]
    /\ ret = <<>>
    /\ loc = Idle
    /\ memo = <<>>

----------------------------------------------------------------------------
\* Calls of the pairwise-score and Brier-score kernels

\* the distinguished cell holds any observation and any members when it is the
\* first cell, and a missing or zero observation with identical members elsewhere
ProbeValues(EN, p) ==
    IF p = <<1, 1>> THEN F \X [1..EN -> F]
    ELSE {np_nan, Flt(0)} \X {[en \in 1..EN |-> Flt(0)]}

Init ==
    /\ \E EN \in 1..MaxEN, p \in Cells :
         \E pv \in ProbeValues(EN, p) :
            args = [y_true |-> y_true_family(Flt(1), p, pv[1]),
                    y_ens |-> y_ens_family(EN, p, pv[2]),
                    q_bins |-> q_bins_uniform,
                    CDFs |-> CDFs_family(0, cdf_background),
                    data |-> data_family(Flt(0), <<0, 0>>, Flt(0))]
    /\ np_state = 0
    /\ nb_state = 0
    /\ InitControl

\* the result also stored over the observations of the caller
Returned_in_place(name, arg, value) ==
    /\ loc.pc = "idle"
    /\ call' = [name |-> name, arg |-> arg, status |-> "returned"]
    /\ ret' = value
    /\ args' = [args EXCEPT !.y_true = [day \in 1..Len(@) |-> [n \in 1..Len(@[day]) |-> Flt(0)]]]
    /\ UNCHANGED <<loc, np_state, nb_state, memo>>

Returned(name, arg, value) ==
    /\ loc.pc = "idle"
    /\ call' = [name |-> name, arg |-> arg, status |-> "returned"]
    /\ ret' = value
    /\ UNCHANGED <<args, loc, np_state, nb_state, memo>>

Call_CRPS_1d == Returned("CRPS_1d", None, CRPS_1d(args.y_true, args.y_ens))

Call_CRPS_2d ==
    \E land_mask \in Masks :
        Returned("CRPS_2d", land_mask,
                 CRPS_2d(reshape_true(args.y_true), reshape_ens(args.y_ens), land_mask))

Call_CRPS_1d_nan == Returned("CRPS_1d_nan", None, CRPS_1d_nan(args.y_true, args.y_ens))

Call_BS_binary_1d == Returned("BS_binary_1d", None, BS_binary_1d(args.y_true, args.y_ens))

Call_BS_binary_1d_nan ==
    Returned("BS_binary_1d_nan", None, BS_binary_1d_nan(args.y_true, args.y_ens))

\* one call of one kernel on one input of the family
Next ==
    /\ call.name = "none"
    /\ \/ Call_CRPS_1d
       \/ Call_CRPS_2d
       \/ Call_CRPS_1d_nan
       \/ Call_BS_binary_1d
       \/ Call_BS_binary_1d_nan

Spec == Init /\ [][Next]_vars

----------------------------------------------------------------------------
\* Properties of the pairwise-score and Brier-score kernels

RECURSIVE Sigma(_, _)
Sigma(S, g) ==
    IF S = {} THEN Flt(0)
    ELSE LET x == CHOOSE x \in S : TRUE IN fadd(g[x], Sigma(S \ {x}, g))

PairwiseKernels == {"CRPS_1d", "CRPS_2d", "CRPS_1d_nan"}

CallEN == Len(args.y_ens[1])

Obs(c) == args.y_true[c[1]][c[2]]

Members(c) == [en \in 1..CallEN |-> args.y_ens[c[1]][en][c[2]]]

GridX(n) == ((n - 1) \div NumY) + 1
GridY(n) == ((n - 1) % NumY) + 1

\* the cell c = <<day, n>> of the returned arrays, n counting the flattened grid
Out(c) ==
    IF call.name = "CRPS_2d"
    THEN [MAE |-> ret.MAE[c[1]][GridX(c[2])][GridY(c[2])],
          SPREAD |-> ret.SPREAD[c[1]][GridX(c[2])][GridY(c[2])],
          CRPS |-> ret.CRPS[c[1]][GridX(c[2])][GridY(c[2])]]
    ELSE [MAE |-> ret.MAE[c[1]][c[2]],
          SPREAD |-> ret.SPREAD[c[1]][c[2]],
          CRPS |-> ret.CRPS[c[1]][c[2]]]

MaskAt(c) == call.arg = None \/ call.arg[GridX(c[2])][GridY(c[2])]

Processed(c) ==
    CASE call.name = "CRPS_1d" -> TRUE
      [] call.name = "CRPS_1d_nan" -> ~np_isnan(Obs(c))
      [] call.name = "CRPS_2d" -> MaskAt(c)

Finite(c) == ~np_isnan(Obs(c)) /\ \A en \in 1..CallEN : ~np_isnan(Members(c)[en])

RefMAE(obs, ens) ==
    fdiv(Sigma(DOMAIN ens, [en \in DOMAIN ens |-> np_abs(fsub(obs, ens[en]))]), Len(ens))

RefSPREAD(ens) ==
    LET pairs == (DOMAIN ens) \X (DOMAIN ens)
    IN  fdiv(Sigma(pairs, [pr \in pairs |-> np_abs(fsub(ens[pr[1]], ens[pr[2]]))]),
             2 * Len(ens) * Len(ens))

\* C1: in every processed cell of CRPS_1d, CRPS_2d and CRPS_1d_nan, MAE is the
\* mean over the members of |obs - member|, SPREAD is the sum of
\* |ens[en1] - ens[en2]| over all EN*EN ordered pairs divided by 2*EN*EN, and
\* CRPS = MAE - SPREAD; obs 1 with members {0, 2} gives MAE 1, SPREAD 1/2, CRPS 1/2.
C1_PairwiseDecomposition ==
    call.name \in PairwiseKernels =>
        \A c \in Cells :
            Processed(c) =>
                /\ Out(c).MAE = RefMAE(Obs(c), Members(c))
                /\ Out(c).SPREAD = RefSPREAD(Members(c))
                /\ Out(c).CRPS = fsub(Out(c).MAE, Out(c).SPREAD)
                /\ (Obs(c) = Flt(1) /\ Members(c) = <<Flt(0), Flt(2)>>) =>
                       /\ Out(c).MAE = Flt(1)
                       /\ Out(c).SPREAD = Rat(1, 2)
                       /\ Out(c).CRPS = Rat(1, 2)

C1_Witness ==
    /\ call.name = "CRPS_1d"
    /\ \E c \in Cells :
          /\ Obs(c) = Flt(1)
          /\ Members(c) = <<Flt(0), Flt(2)>>
          /\ Out(c).CRPS = Rat(1, 2)

\* C2: CRPS_1d_nan and BS_binary_1d_nan return a missing value in every cell
\* whose observation is missing, whatever the members, and in every other cell
\* the value CRPS_1d / BS_binary_1d returns for that cell on the same inputs.
C2_NanVariants ==
    /\ call.name = "CRPS_1d_nan" =>
          \A c \in Cells :
             IF np_isnan(Obs(c))
             THEN /\ np_isnan(Out(c).MAE)
                  /\ np_isnan(Out(c).SPREAD)
                  /\ np_isnan(Out(c).CRPS)
             ELSE LET plain == CRPS_1d(args.y_true, args.y_ens)
                  IN  /\ Out(c).MAE = plain.MAE[c[1]][c[2]]
                      /\ Out(c).SPREAD = plain.SPREAD[c[1]][c[2]]
                      /\ Out(c).CRPS = plain.CRPS[c[1]][c[2]]
    /\ call.name = "BS_binary_1d_nan" =>
          \A c \in Cells :
             IF np_isnan(Obs(c))
             THEN np_isnan(ret[c[1]][c[2]])
             ELSE ret[c[1]][c[2]] = BS_binary_1d(args.y_true, args.y_ens)[c[1]][c[2]]

C2_Witness ==
    /\ call.name = "CRPS_1d_nan"
    /\ \E c \in Cells : np_isnan(Obs(c)) /\ ~np_isnan(Members(c)[1])
    /\ \E c \in Cells : ~np_isnan(Obs(c)) /\ ~np_isnan(Out(c).CRPS)

\* C3: CRPS_2d leaves CRPS, MAE and SPREAD missing at every time for a grid
\* point whose mask is False, and returns at a grid point whose mask is True
\* (every point when the mask is omitted) the values CRPS_1d returns for that
\* point of the flattened grid; an all-False mask gives entirely missing outputs.
C3_MaskedGrid ==
    call.name = "CRPS_2d" =>
        LET flat == CRPS_1d(args.y_true, args.y_ens) IN
        /\ \A c \in Cells :
              IF MaskAt(c)
              THEN /\ Out(c).MAE = flat.MAE[c[1]][c[2]]
                   /\ Out(c).SPREAD = flat.SPREAD[c[1]][c[2]]
                   /\ Out(c).CRPS = flat.CRPS[c[1]][c[2]]
              ELSE /\ np_isnan(Out(c).MAE)
                   /\ np_isnan(Out(c).SPREAD)
                   /\ np_isnan(Out(c).CRPS)
        /\ (\A c \in Cells : ~MaskAt(c)) =>
              \A day \in 1..NumDays, i \in 1..NumX, j \in 1..NumY :
                 /\ np_isnan(ret.MAE[day][i][j])
                 /\ np_isnan(ret.SPREAD[day][i][j])
                 /\ np_isnan(ret.CRPS[day][i][j])

C3_Witness ==
    /\ call.name = "CRPS_2d"
    /\ \E c \in Cells : ~MaskAt(c) /\ Finite(c)
    /\ \E c \in Cells : MaskAt(c) /\ c[2] > 1 /\ ~np_isnan(Out(c).CRPS)

\* the kernel of the current call applied to other members
Rerun(y_ens) ==
    CASE call.name = "CRPS_1d" -> CRPS_1d(args.y_true, y_ens).SPREAD
      [] call.name = "CRPS_1d_nan" -> CRPS_1d_nan(args.y_true, y_ens).SPREAD
      [] call.name = "CRPS_2d" ->
           LET r == CRPS_2d(reshape_true(args.y_true), reshape_ens(y_ens), call.arg)
           IN  [day \in 1..NumDays |-> [n \in 1..NumGrids |-> r.SPREAD[day][GridX(n)][GridY(n)]]]

\* C10: in every cell computed from a finite observation and finite members,
\* 0 <= SPREAD <= MAE and CRPS >= 0; SPREAD is the same for every permutation of
\* the members, and is 0 (and CRPS = MAE) when all members are identical.
C10_SpreadBounds ==
    call.name \in PairwiseKernels =>
        /\ \A c \in Cells :
              (Processed(c) /\ Finite(c)) =>
                 /\ fle(Flt(0), Out(c).SPREAD)
                 /\ fle(Out(c).SPREAD, Out(c).MAE)
                 /\ fle(Flt(0), Out(c).CRPS)
                 /\ (\A en \in 1..CallEN : Members(c)[en] = Members(c)[1]) =>
                        /\ Out(c).SPREAD = Flt(0)
                        /\ Out(c).CRPS = Out(c).MAE
        /\ \A f \in Permutations(1..CallEN) :
              LET permuted == [day \in 1..NumDays |-> [en \in 1..CallEN |->
                                  args.y_ens[day][f[en]]]]
                  again == Rerun(permuted)
              IN  \A c \in Cells :
                     (Processed(c) /\ Finite(c)) => again[c[1]][c[2]] = Out(c).SPREAD

C10_Witness ==
    /\ call.name = "CRPS_2d"
    /\ \E c \in Cells :
          /\ Processed(c) /\ Finite(c)
          /\ Members(c)[1] # Members(c)[CallEN]
          /\ flt(Flt(0), Out(c).SPREAD)
          /\ flt(Out(c).SPREAD, Out(c).MAE)

----------------------------------------------------------------------------
\* CRPS_1d_from_quantiles, one iteration of the (day, n) loop per step

\* observations on and between the CDF values, below and above all of them
ObsQ == {np_nan} \cup {Rat(k, 2) : k \in (-1)..(2 * MaxVal + 1)}

ProbeValuesQuant(p) ==
    IF p = <<1, 1>> THEN ObsQ \X [1..NumBins -> F \ {np_nan}]
    ELSE {np_nan, Flt(0)} \X {cdf_background}

InitQuant ==
    /\ \E p \in Cells :
         \E pv \in ProbeValuesQuant(p) :
            args = [y_true |-> y_true_family(Flt(1), p, pv[1]),
                    y_ens |-> y_ens_family(2, <<0, 0>>, <<>>),
                    q_bins |-> q_bins_uniform,
                    CDFs |-> CDFs_family(p[2], pv[2]),
                    data |-> data_family(Flt(0), <<0, 0>>, Flt(0))]
    /\ np_state = 0
    /\ nb_state = 0
    /\ InitControl

Quant_Call ==
    /\ loc.pc = "idle"
    /\ call' = [name |-> "CRPS_1d_from_quantiles", arg |-> None, status |-> "running"]
    /\ loc' = [pc |-> "quantiles", it |-> 0, day |-> 0, n |-> 0, step |-> 0,
               H_func |-> [k \in 1..Len(args.q_bins) |-> Flt(0)],
               CRPS |-> <<>>]
    /\ UNCHANGED <<args, ret, np_state, nb_state, memo>>

Quant_Iter ==
    /\ loc.pc = "quantiles"
    /\ LET L == Len(args.q_bins) - 1
           N_days == Len(args.y_true)
           N_grids == Len(args.y_true[1])
           day == loc.it \div N_grids
           n == loc.it % N_grids
           cdf == CDF_column(args.CDFs, n + 1)
           obs == args.y_true[day + 1][n + 1]
           step == quantile_step(cdf, obs, L)
           H_func == H_func_set(H_func_clear(loc.H_func), step)
       IN  /\ loc.it < N_days * N_grids
           /\ loc' = [pc |-> "quantiles", it |-> loc.it + 1, day |-> day, n |-> n,
                      step |-> step, H_func |-> H_func,
                      CRPS |-> Append(loc.CRPS, quantile_integral(args.q_bins, H_func, cdf))]
    /\ UNCHANGED <<args, call, ret, np_state, nb_state, memo>>

Quant_Return ==
    /\ loc.pc = "quantiles"
    /\ LET N_days == Len(args.y_true)
           N_grids == Len(args.y_true[1])
       IN  /\ loc.it = N_days * N_grids
           /\ ret' = [day \in 1..N_days |-> [n \in 1..N_grids |->
                         loc.CRPS[(day - 1) * N_grids + n]]]
    /\ call' = [call EXCEPT !.status = "returned"]
    /\ loc' = Idle
    /\ UNCHANGED <<args, np_state, nb_state, memo>>

NextQuant ==
    \/ Quant_Call
    \/ Quant_Iter
    \/ Quant_Return

SpecQuant == InitQuant /\ [][NextQuant]_vars

\* the cell of the iteration that has just run
IterDone == loc.pc = "quantiles" /\ loc.it > 0
IterCdf == CDF_column(args.CDFs, loc.n + 1)
IterObs == args.y_true[loc.day + 1][loc.n + 1]

NonDecreasing(cdf) == \A k \in 1..(Len(cdf) - 1) : fle(cdf[k], cdf[k + 1])

Min(a, b) == IF a < b THEN a ELSE b

CountLess(cdf, obs) == Cardinality({k \in 1..Len(cdf) : flt(cdf[k], obs)})
CountLessEq(cdf, obs) == Cardinality({k \in 1..Len(cdf) : fle(cdf[k], obs)})

\* the indicator is 0 below step and 1 from step on (step counts from 0)
IndicatorOf(H_func, step) ==
    \A k \in 1..Len(H_func) : H_func[k] = IF k - 1 < step THEN Flt(0) ELSE Flt(1)

IndicatorCases(cdf, obs, step, H_func, L) ==
    /\ IndicatorOf(H_func, step)
    /\ (\A k \in 1..Len(cdf) : flt(obs, cdf[k])) =>
           step = 0 /\ \A k \in 1..Len(H_func) : H_func[k] = Flt(1)
    /\ (\A k \in 1..Len(cdf) : flt(cdf[k], obs)) => step = L

\* C4 as stated: step is the index with CDFs[step-1, g] <= obs < CDFs[step, g],
\* also when obs equals a CDF value, clamped to num_bins - 1
C4_AsStated ==
    (IterDone /\ NonDecreasing(IterCdf) /\ ~np_isnan(IterObs)) =>
        /\ loc.step = Min(CountLessEq(IterCdf, IterObs), Len(args.q_bins) - 1)
        /\ IndicatorCases(IterCdf, IterObs, loc.step, loc.H_func, Len(args.q_bins) - 1)

\* C4 amended: for a non-decreasing CDF column and a present observation, step
\* is the left-most index with CDFs[step-1, g] < obs <= CDFs[step, g] (the number
\* of CDF values strictly below obs), clamped to num_bins - 1; the indicator is
\* 0 below step and 1 from step on; an observation below every CDF value gives
\* step 0 and an all-ones indicator, one above every CDF value step num_bins - 1.
C4_StepIndex ==
    (IterDone /\ NonDecreasing(IterCdf) /\ ~np_isnan(IterObs)) =>
        /\ loc.step = Min(CountLess(IterCdf, IterObs), Len(args.q_bins) - 1)
        /\ IndicatorCases(IterCdf, IterObs, loc.step, loc.H_func, Len(args.q_bins) - 1)

C4_Witness ==
    /\ IterDone
    /\ NonDecreasing(IterCdf)
    /\ \E k \in 2..Len(IterCdf) : IterCdf[k] = IterObs /\ flt(IterCdf[k - 1], IterObs)
    /\ loc.step > 0
    /\ loc.H_func[loc.step + 1] = Flt(1)
    /\ loc.H_func[loc.step] = Flt(0)

----------------------------------------------------------------------------
\* score_bootstrap_1d, one bootstrap cycle (i, b) per step

SB_Call(bootstrap_n) ==
    /\ loc.pc = "idle"
    /\ call' = [name |-> "score_bootstrap_1d", arg |-> bootstrap_n, status |-> "running"]
    /\ loc' = [pc |-> "cycle", i |-> 0, b |-> 0, temp |-> <<>>]
    /\ UNCHANGED <<args, ret, np_state, nb_state, memo>>

SB_Cycle ==
    /\ loc.pc = "cycle"
    /\ loc.i < Len(args.data[1])
    /\ LET raw == raw_valid(args.data, loc.i + 1)
           L == Len(raw)
           ind_bagging == np_random_choice(nb_state, L)
           sample == take(raw, ind_bagging.value)
           last == loc.b + 1 = call.arg
       IN  /\ nb_state' = ind_bagging.state
           /\ IF nb_mean_raises(sample)
              THEN /\ call' = [call EXCEPT !.status = "ZeroDivisionError"]
                   /\ loc' = Idle
              ELSE /\ loc' = [pc |-> "cycle",
                              i |-> IF last THEN loc.i + 1 ELSE loc.i,
                              b |-> IF last THEN 0 ELSE loc.b + 1,
                              temp |-> Append(loc.temp, np_mean(sample))]
                   /\ UNCHANGED call
    /\ UNCHANGED <<args, ret, np_state, memo>>

SB_Return ==
    /\ loc.pc = "cycle"
    /\ loc.i = Len(args.data[1])
    /\ ret' = [i \in 1..Len(args.data[1]) |-> [b \in 1..call.arg |->
                  loc.temp[(i - 1) * call.arg + b]]]
    /\ call' = [call EXCEPT !.status = "returned"]
    /\ loc' = Idle
    /\ UNCHANGED <<args, np_state, nb_state, memo>>

----------------------------------------------------------------------------
\* bootstrap_confidence_intervals, one draw of bootstrap_core per step

BCI_Call(num_bootstrap_samples, random_seed) ==
    /\ loc.pc = "idle"
    /\ call' = [name |-> "bootstrap_confidence_intervals",
                arg |-> [num_bootstrap_samples |-> num_bootstrap_samples,
                         random_seed |-> random_seed],
                status |-> "running"]
    /\ np_state' = IF random_seed # None THEN np_random_seed(random_seed[1]) ELSE np_state
    /\ loc' = [pc |-> "core", i |-> 0, bootstrap_data |-> <<>>]
    /\ UNCHANGED <<args, ret, nb_state, memo>>

\* bootstrap_data[i, :] = rmse_t2m[ind, :]
bootstrap_core_iter(ind) ==
    /\ loc.pc = "core"
    /\ loc.i < call.arg.num_bootstrap_samples
    /\ loc' = [pc |-> "core", i |-> loc.i + 1,
               bootstrap_data |-> Append(loc.bootstrap_data, args.data[ind + 1])]
    /\ UNCHANGED <<args, call, ret, np_state, memo>>

\* ind = np.random.randint(0, n_days), drawn from the generator of the jitted code
BCI_Draw ==
    LET r == np_random_randint(nb_state, 0, Len(args.data))
    IN  bootstrap_core_iter(r.value) /\ nb_state' = r.state

\* the same step with the generator left open: any day index can be drawn, in
\* the sequences with at most MaxRare draws of a day other than the first
RareDraws ==
    Cardinality({k \in 1..Len(loc.bootstrap_data) : loc.bootstrap_data[k] # args.data[1]})

BCI_DrawAny ==
    \E ind \in 0..(Len(args.data) - 1) :
        /\ loc.pc = "core"
        /\ ind = 0 \/ RareDraws < MaxRare
        /\ bootstrap_core_iter(ind)
        /\ UNCHANGED nb_state

BCI_Return ==
    /\ loc.pc = "core"
    /\ loc.i = call.arg.num_bootstrap_samples
    /\ ret' = confidence_intervals(loc.bootstrap_data, lower_quantile, upper_quantile,
                                   Len(args.data[1]))
    /\ call' = [call EXCEPT !.status = "returned"]
    /\ loc' = Idle
    /\ memo' = IF memo = <<>> /\ call.arg.random_seed # None
               THEN <<[arg |-> call.arg, result |-> ret']>>
               ELSE memo
    /\ UNCHANGED <<args, np_state, nb_state>>

----------------------------------------------------------------------------
\* The bootstrap routines under the generators: any sequence of calls

DataCells == (1..(NumDays + 1)) \X (1..NumX)

OptionalSeeds == {None} \cup {<<seed>> : seed \in Seeds}

InitSeed ==
    /\ \E bg \in {np_nan, Flt(0)}, p \in DataCells, v \in F :
            args = [y_true |-> y_true_family(Flt(1), <<0, 0>>, Flt(1)),
                    y_ens |-> y_ens_family(2, <<0, 0>>, <<>>),
                    q_bins |-> q_bins_uniform,
                    CDFs |-> CDFs_family(0, cdf_background),
                    data |-> data_family(bg, p, v)]
    /\ np_state \in 0..(RngMod - 1)
    /\ nb_state \in 0..(RngMod - 1)
    /\ InitControl

NextSeed ==
    \/ \E bootstrap_n \in 1..MaxBoot : SB_Call(bootstrap_n)
    \/ SB_Cycle
    \/ SB_Return
    \/ \E n \in 1..MaxBoot, seed \in OptionalSeeds : BCI_Call(n, seed)
    \/ BCI_Draw
    \/ BCI_Return

SpecSeed == InitSeed /\ [][NextSeed]_vars

BCI_Returned ==
    call.name = "bootstrap_confidence_intervals" /\ call.status = "returned"

\* C5: two calls of bootstrap_confidence_intervals with the same matrix,
\* num_bootstrap_samples and non-None random_seed return identical
\* (mean, ci_lower, ci_upper), whatever calls and draws happened before each.
C5_SeedDeterminism ==
    (BCI_Returned /\ memo # <<>>) =>
        (call.arg = memo[1].arg => ret = memo[1].result)

\* the non-missing values of data[..., i], by their row
ValidRows(i) == {r \in 1..Len(args.data) : ~np_isnan(args.data[r][i])}

\* C7: row k of score_bootstrap_1d holds, in each of its bootstrap_n entries,
\* the mean of L values drawn with replacement from the L non-missing values of
\* data[..., k]; when L = 0 the call raises no error and row k is all NaN.
C7_ResampleRows ==
    (call.name = "score_bootstrap_1d" /\ call.status # "running") =>
        /\ call.status = "returned"
        /\ \A i \in 1..Len(args.data[1]) :
              LET rows == ValidRows(i)
                  L == Cardinality(rows)
              IN  \A b \in 1..call.arg :
                     IF L = 0 THEN np_isnan(ret[i][b])
                     ELSE \E ind \in [1..L -> rows] :
                             ret[i][b] = fdiv(Sigma(1..L, [k \in 1..L |-> args.data[ind[k]][i]]), L)

----------------------------------------------------------------------------
\* bootstrap_confidence_intervals over every sequence of drawn day indices

\* sample counts around 1 / lower_quantile, the count from which one draw in
\* the tail no longer moves the quantile
SampleCounts == {1, 2, 3, lower_quantile.d, MaxSamples}

InitCI ==
    /\ \E u \in 0..MaxVal, v \in 0..MaxVal :
         /\ u # v
         /\ args = [y_true |-> y_true_family(Flt(1), <<0, 0>>, Flt(1)),
                    y_ens |-> y_ens_family(2, <<0, 0>>, <<>>),
                    q_bins |-> q_bins_uniform,
                    CDFs |-> CDFs_family(0, cdf_background),
                    data |-> <<<<Flt(u), Flt(MaxVal - u)>>, <<Flt(v), Flt(MaxVal - v)>>>>]
    /\ np_state = 0
    /\ nb_state = 0
    /\ InitControl

\* one call on one matrix
NextCI ==
    \/ call.name = "none" /\ \E n \in SampleCounts : BCI_Call(n, None)
    \/ BCI_DrawAny
    \/ BCI_Return

SpecCI == InitCI /\ [][NextCI]_vars

LeadTimes == 1..Len(args.data[1])

ColumnMin(t) == CHOOSE x \in {args.data[r][t] : r \in 1..Len(args.data)} :
                    \A r \in 1..Len(args.data) : fle(x, args.data[r][t])
ColumnMax(t) == CHOOSE x \in {args.data[r][t] : r \in 1..Len(args.data)} :
                    \A r \in 1..Len(args.data) : fle(args.data[r][t], x)

----------------------------------------------------------------------------
\* One call of any kernel, from any state of the generator that the jitted code
\* draws from; the interpreter's generator starts in a state that no seed gives

InitKernels ==
    /\ \E obs \in {np_nan, Flt(0)}, v \in {np_nan, Flt(1)} :
            args = [y_true |-> y_true_family(Flt(1), <<1, 1>>, obs),
                    y_ens |-> y_ens_family(2, <<0, 0>>, <<>>),
                    q_bins |-> q_bins_uniform,
                    CDFs |-> CDFs_family(0, cdf_background),
                    data |-> data_family(Flt(0), <<1, 1>>, v)]
    /\ np_state = RngMod - 1
    /\ nb_state \in 0..(RngMod - 1)
    /\ InitControl

NextKernels ==
    \/ call.name = "none" /\ Call_CRPS_1d
    \/ call.name = "none" /\ Call_CRPS_2d
    \/ call.name = "none" /\ Call_CRPS_1d_nan
    \/ call.name = "none" /\ Call_BS_binary_1d
    \/ call.name = "none" /\ Call_BS_binary_1d_nan
    \/ call.name = "none" /\ Quant_Call
    \/ Quant_Iter
    \/ Quant_Return
    \/ call.name = "none" /\ \E bootstrap_n \in 1..MaxBoot : SB_Call(bootstrap_n)
    \/ SB_Cycle
    \/ SB_Return
    \/ call.name = "none" /\ \E n \in 1..MaxBoot, seed \in OptionalSeeds : BCI_Call(n, seed)
    \/ BCI_Draw
    \/ BCI_Return

SpecKernels == InitKernels /\ [][NextKernels]_vars

DeterministicKernels ==
    {"CRPS_1d_from_quantiles", "CRPS_1d", "CRPS_2d", "CRPS_1d_nan",
     "BS_binary_1d", "BS_binary_1d_nan"}

\* C8 as stated: no step of any kernel changes a caller-supplied array or the
\* state of a random generator.
C8_AsStated ==
    [][args' = args /\ np_state' = np_state /\ nb_state' = nb_state]_vars

\* C8 amended: no step of any kernel changes a caller-supplied array; the six
\* deterministic kernels change no generator state; score_bootstrap_1d and
\* bootstrap_core advance the generator of the jitted code with every draw, and
\* bootstrap_confidence_intervals called with a seed sets the interpreter's
\* global generator to that seed, and writes nothing else that outlives it.
C8_FrameEffects ==
    [][/\ args' = args
       /\ call'.name \in DeterministicKernels =>
             np_state' = np_state /\ nb_state' = nb_state
       /\ call'.name = "score_bootstrap_1d" =>
             /\ np_state' = np_state
             /\ nb_state' # nb_state =>
                   loc.pc = "cycle" /\ Len(raw_valid(args.data, loc.i + 1)) > 0
       /\ call'.name = "bootstrap_confidence_intervals" =>
             /\ nb_state' = IF loc.pc = "core" /\ loc'.pc = "core"
                            THEN rng_next(nb_state) ELSE nb_state
             /\ np_state' = IF loc.pc = "idle" /\ call'.arg.random_seed # None
                            THEN np_random_seed(call'.arg.random_seed[1])
                            ELSE np_state]_vars

C8_Witness ==
    /\ call.name = "bootstrap_confidence_intervals"
    /\ call.status = "returned"
    /\ call.arg.random_seed # None
    /\ np_state = np_random_seed(call.arg.random_seed[1])
    /\ np_state # RngMod - 1

----------------------------------------------------------------------------
\* The loop iterations of a kernel as concurrent processes, one per grid point
\* of a one-day input; every statement of the loop body is one step

PairwiseLoops == {"CRPS_1d", "CRPS_2d", "CRPS_1d_nan"}
BrierLoops == {"BS_binary_1d", "BS_binary_1d_nan"}
ParKernels == PairwiseLoops \cup BrierLoops \cup {"CRPS_1d_from_quantiles"}

InitPar ==
    /\ \E obs \in [1..ParGrids -> F] :
            args = [y_true |-> <<obs>>,
                    y_ens |-> <<[en \in 1..2 |-> [n \in 1..ParGrids |-> Flt(en - 1)]]>>,
                    q_bins |-> q_bins_uniform,
                    CDFs |-> [k \in 1..NumBins |-> [n \in 1..ParGrids |-> cdf_background[k]]],
                    data |-> data_family(Flt(0), <<0, 0>>, Flt(0))]
    /\ np_state = 0
    /\ nb_state = 0
    /\ InitControl

\* the arrays of a (time, 1, grid) call of CRPS_2d
grid_true(y_true) == [day \in 1..Len(y_true) |-> <<y_true[day]>>]
grid_ens(y_ens) == [day \in 1..Len(y_ens) |-> [en \in 1..Len(y_ens[day]) |-> <<y_ens[day][en]>>]]

\* the allocations before the loop; a cell of np.empty is read by no iteration
\* before it is written
Par_Call(kernel) ==
    /\ loc.pc = "idle"
    /\ call' = [name |-> kernel, arg |-> None, status |-> "running"]
    /\ loc' = [pc |-> "par",
               H_func |-> [k \in 1..Len(args.q_bins) |-> Flt(0)],
               iter |-> [n \in 1..ParGrids |->
                           [pc |-> IF kernel \in PairwiseLoops THEN "MAE"
                                   ELSE IF kernel \in BrierLoops THEN "BS" ELSE "search",
                            step |-> 0, alone |-> TRUE]],
               MAE |-> [n \in 1..ParGrids |-> np_nan],
               SPREAD |-> [n \in 1..ParGrids |-> np_nan],
               out |-> [n \in 1..ParGrids |-> np_nan]]
    /\ UNCHANGED <<args, ret, np_state, nb_state, memo>>

ParStep(n, pc) == loc.pc = "par" /\ loc.iter[n].pc = pc

ParSkips(n) == call.name = "CRPS_1d_nan" /\ np_isnan(args.y_true[1][n])

Par_MAE(n) ==
    /\ ParStep(n, "MAE")
    /\ loc' = [loc EXCEPT !.iter[n].pc = "SPREAD",
                          !.MAE[n] = IF ParSkips(n) THEN np_nan
                                     ELSE MAE_1d(args.y_true, args.y_ens, 2, 1, n)]
    /\ UNCHANGED <<args, call, ret, np_state, nb_state, memo>>

\* every iteration writing the first cell
Par_SPREAD_first_cell(n) ==
    /\ ParStep(n, "SPREAD")
    /\ loc' = [loc EXCEPT !.iter[n].pc = "done",
                          !.SPREAD[1] = SPREAD_1d(args.y_ens, 2, 1, n)]
    /\ UNCHANGED <<args, call, ret, np_state, nb_state, memo>>

Par_SPREAD(n) ==
    /\ ParStep(n, "SPREAD")
    /\ loc' = [loc EXCEPT !.iter[n].pc = "done",
                          !.SPREAD[n] =
                              CASE call.name = "CRPS_1d" -> SPREAD_1d(args.y_ens, 2, 1, n)
                                [] call.name = "CRPS_2d" ->
                                     fdiv(spread_2d(grid_ens(args.y_ens), 1, 1, n, 2, 1, 1, Flt(0)),
                                          M_2d(2))
                                [] call.name = "CRPS_1d_nan" ->
                                     IF ParSkips(n) THEN np_nan
                                     ELSE fdiv(spread_1d_nan(args.y_ens, 1, n, 2, 1, 1, Flt(0)),
                                               M_1d_nan(2))]
    /\ UNCHANGED <<args, call, ret, np_state, nb_state, memo>>

Par_BS(n) ==
    /\ ParStep(n, "BS")
    /\ loc' = [loc EXCEPT !.iter[n].pc = "done",
                          !.out[n] = IF call.name = "BS_binary_1d_nan" /\ np_isnan(args.y_true[1][n])
                                     THEN np_nan
                                     ELSE BS_cell(args.y_true[1], args.y_ens[1], n)]
    /\ UNCHANGED <<args, call, ret, np_state, nb_state, memo>>

\* step = np.searchsorted(cdf, obs); if step > L: step = L
Par_Search(n) ==
    /\ ParStep(n, "search")
    /\ loc' = [loc EXCEPT !.iter[n].pc = "clear",
                          !.iter[n].step = quantile_step(CDF_column(args.CDFs, n),
                                                         args.y_true[1][n],
                                                         Len(args.q_bins) - 1)]
    /\ UNCHANGED <<args, call, ret, np_state, nb_state, memo>>

\* a write of H_func by iteration n: every other iteration that is between its
\* H_func[:] = 0.0 and its integral has no longer been alone with the buffer
Disturbed(n) ==
    [m \in 1..ParGrids |->
        IF m # n /\ loc.iter[m].pc \in {"set", "integrate"}
        THEN [loc.iter[m] EXCEPT !.alone = FALSE]
        ELSE loc.iter[m]]

Par_Clear(n) ==
    /\ ParStep(n, "clear")
    /\ loc' = [loc EXCEPT !.H_func = H_func_clear(loc.H_func),
                          !.iter = [Disturbed(n) EXCEPT ![n].pc = "set", ![n].alone = TRUE]]
    /\ UNCHANGED <<args, call, ret, np_state, nb_state, memo>>

Par_Set(n) ==
    /\ ParStep(n, "set")
    /\ loc' = [loc EXCEPT !.H_func = H_func_set(loc.H_func, loc.iter[n].step),
                          !.iter = [Disturbed(n) EXCEPT ![n].pc = "integrate"]]
    /\ UNCHANGED <<args, call, ret, np_state, nb_state, memo>>

Par_Integrate(n) ==
    /\ ParStep(n, "integrate")
    /\ loc' = [loc EXCEPT !.iter[n].pc = "done",
                          !.out[n] = quantile_integral(args.q_bins, loc.H_func,
                                                       CDF_column(args.CDFs, n))]
    /\ UNCHANGED <<args, call, ret, np_state, nb_state, memo>>

ParDone == loc.pc = "par" /\ \A n \in 1..ParGrids : loc.iter[n].pc = "done"

\* what the call returns once every iteration has run
ParResult ==
    LET CRPS == [n \in 1..ParGrids |-> fsub(loc.MAE[n], loc.SPREAD[n])]
    IN  CASE call.name = "CRPS_2d" ->
               [CRPS |-> <<<<CRPS>>>>, MAE |-> <<<<loc.MAE>>>>, SPREAD |-> <<<<loc.SPREAD>>>>]
          [] call.name \in PairwiseLoops \ {"CRPS_2d"} ->
               [CRPS |-> <<CRPS>>, MAE |-> <<loc.MAE>>, SPREAD |-> <<loc.SPREAD>>]
          [] OTHER -> <<loc.out>>

Par_Return ==
    /\ ParDone
    /\ ret' = ParResult
    /\ call' = [call EXCEPT !.status = "returned"]
    /\ loc' = Idle
    /\ UNCHANGED <<args, np_state, nb_state, memo>>

NextPar ==
    \/ call.name = "none" /\ \E kernel \in ParKernels : Par_Call(kernel)
    \/ \E n \in 1..ParGrids : Par_MAE(n)
    \/ \E n \in 1..ParGrids : Par_SPREAD(n)
    \/ \E n \in 1..ParGrids : Par_BS(n)
    \/ \E n \in 1..ParGrids : Par_Search(n)
    \/ \E n \in 1..ParGrids : Par_Clear(n)
    \/ \E n \in 1..ParGrids : Par_Set(n)
    \/ \E n \in 1..ParGrids : Par_Integrate(n)
    \/ Par_Return

SpecPar == InitPar /\ [][NextPar]_vars

\* the sequential run of the kernel of the current call
SequentialRun ==
    CASE call.name = "CRPS_1d" -> CRPS_1d(args.y_true, args.y_ens)
      [] call.name = "CRPS_2d" -> CRPS_2d(grid_true(args.y_true), grid_ens(args.y_ens), None)
      [] call.name = "CRPS_1d_nan" -> CRPS_1d_nan(args.y_true, args.y_ens)
      [] call.name = "BS_binary_1d" -> BS_binary_1d(args.y_true, args.y_ens)
      [] call.name = "BS_binary_1d_nan" -> BS_binary_1d_nan(args.y_true, args.y_ens)
      [] call.name = "CRPS_1d_from_quantiles" ->
           CRPS_1d_from_quantiles(args.q_bins, args.CDFs, args.y_true)

\* C9 as stated: in every interleaving of the iterations of a kernel's loop,
\* every output cell ends with the value of the sequential run.
C9_AsStated ==
    (call.name \in ParKernels /\ call.status = "returned") => ret = SequentialRun

\* C9 amended: the iterations of the CRPS kernels and of the Brier kernels have
\* no cross-iteration dependencies, and in every interleaving every output cell
\* ends with the value of the sequential run; the iterations of
\* CRPS_1d_from_quantiles all write and read the one H_func buffer, and an
\* output cell of it ends with the value of the sequential run when no other
\* iteration wrote H_func between that iteration's H_func[:] = 0.0 and its integral.
C9_IndependentIterations ==
    ParDone =>
        IF call.name = "CRPS_1d_from_quantiles"
        THEN \A n \in 1..ParGrids :
                loc.iter[n].alone => ParResult[1][n] = SequentialRun[1][n]
        ELSE ParResult = SequentialRun

C9_Witness ==
    /\ ParDone
    /\ call.name = "CRPS_1d_from_quantiles"
    /\ \E n \in 1..ParGrids, m \in 1..ParGrids :
          /\ loc.iter[n].alone /\ ~loc.iter[m].alone
          /\ ~np_isnan(loc.out[n])
          /\ loc.iter[n].step # loc.iter[m].step

====
